---- MODULE Spec2Model ----
(***************************************************************************)
(* Model of the transcription Job Tracker of the bot:                      *)
(*   src/src/plugins/transcription/message-tracker.js  (MessageTracker)    *)
(*   src/unnamed/part_006                      (TranscriptionService)      *)
(*   src/src/plugins/transcription/index.js    (TranscriptionPlugin)       *)
(* and of two further components of the bot:                               *)
(*   src/src/plugins/reminder/reminder-storage.js        (PluginManager)   *)
(*   src/src/plugins/profile-cinema/profile-movie-*.js   (profile cinema)  *)
(*                                                                         *)
(* The program runs on a single-threaded event loop.  One action of the    *)
(* model is one run-to-suspension segment of a handler: the code between   *)
(* two awaits executes atomically.                                         *)
(***************************************************************************)
EXTENDS Integers, Sequences, FiniteSets, TLC

\* ---------------------------------------------------------------- bounds
NumIds == 2
NumChats == 2
MaxTime == 2                     \* the clock runs over 0..MaxTime
MaxDeleteCalls == 2              \* delete calls per reply the model follows
maxAgeMs == 1                    \* config.transcription.maxAgeMs, the window W
NumPlugins == 3                  \* plugin names are 1..NumPlugins
messageInterval == 2             \* options.messageInterval of the profile cinema
NumKeyframes == 3                \* keyframes.length after detectKeyframes

MessageIds == 1..NumIds          \* message.id._serialized
Chats == 1..NumChats             \* message.from

\* ------------------------------------------------------- program constants
maxFileSizeMB == 25

\* File sizes (MB) the stat call may report: one within the limit, one above.
FileSizesMB == {1, maxFileSizeMB + 1}

\* ------------------------------------------------------------- value space
NoKey == 0                       \* rawData.protocolMessageKey absent
NoQueue == 0                     \* queues.has(chatId) = false
Resolved == 0                    \* Promise.resolve(), the initial queue tail

\* An inbound voice message: its id and its chat.
Messages == [id : MessageIds, from : Chats]
NoMessage == [id |-> 0, from |-> 0]

\* A revoke notice as delivered by the 'message_revoke_everyone' event.
Notices == [id : MessageIds, type : {"revoked", "chat"},
            protocolMessageKey : MessageIds \cup {NoKey}]

NoCall == [to |-> NoMessage, text |-> "none"]
NotInvoked == [stage |-> "none", outcome |-> "none"]

VARIABLES
  queues,                \* chatId -> tail task of the chat's promise chain
  pending,               \* Set of messageIds queued or executing
  completed,             \* Set of messageIds that terminated
  transcriptionMessages, \* Set of messageIds that have a recorded reply
  cancelled,             \* Set of messageIds flagged by a revoke
  closure,               \* messageId -> message captured by the continuation
  previousTask,          \* messageId -> task its continuation is chained to
  taskState,             \* messageId -> "none" | "queued" | "replying" | "done"
  replyCall,             \* messageId -> outstanding message.reply(...) call
  call,                  \* messageId -> TranscriptionService.transcribe promise
  files,                 \* audio paths that exist in the temp directory
  invocations,           \* messageId -> number of TranscriptionService calls
  unlinks,               \* messageId -> number of fs.unlink attempts
  replies,               \* replies delivered to the user, in delivery order
  deleteCalls,           \* messageId -> number of transcriptionMessage.delete(true) calls
  last,                  \* the handler entry that produced the current state
  entryTimestamp,        \* messageId -> timestamp of its transcriptionMessages entry
  now,                   \* Date.now()
  deleteOutstanding,     \* messageId -> delete(true) calls that have not settled
  propagated,            \* number of errors that escaped handleRevoke
  statSize,              \* messageId -> size (MB) fs.stat reported, 0 if none
  raceStarted,           \* messageIds whose external request and timer were started
  loserPending,          \* messageIds whose race is decided, the loser not yet settled
  unhandledRejections,   \* messageIds whose service promise rejected with no handler
  revokeNotice,          \* the notice the revoke event delivers (RevokeSpec)
  plugins,               \* PluginManager.plugins: the Map, in insertion order
  dispatch,              \* what the last handleMessage / handleCommand call did
  ready,                 \* ProfileMovieManager.ready
  movieState,            \* ProfileMovieState.state
  shouldAdvance,         \* what the last registerMessage call returned
  updateQueue,           \* advances chained on updateQueue and not finished
  advancing              \* nextIndex of each advanceFrameSafely that is running

trackerVars == <<queues, pending, completed, transcriptionMessages, cancelled,
                 closure, previousTask, taskState>>
vars == <<queues, pending, completed, transcriptionMessages, cancelled,
          closure, previousTask, taskState, replyCall, call, files,
          invocations, unlinks, replies, deleteCalls, last,
          entryTimestamp, now, deleteOutstanding, propagated,
          statSize, raceStarted, loserPending, unhandledRejections,
          revokeNotice,
          plugins, dispatch, ready, movieState, shouldAdvance, updateQueue,
          advancing>>

\* The state only handleRevoke after its await, the clock and the sweeper touch.
registryVars == <<entryTimestamp, now, deleteOutstanding, propagated>>

\* What the service call has measured and started.
serviceMeasured == <<statSize, raceStarted>>

\* What the service call has done so far, beside its stage.
serviceHistory == <<statSize, raceStarted, loserPending, unhandledRejections,
                    revokeNotice>>

\* The state of the plugin manager and of the profile cinema.
pluginVars == <<plugins, dispatch>>
cinemaVars == <<ready, movieState, shouldAdvance, updateQueue, advancing>>

\* All the state of the transcription tracker, its service and its plugin.
jobVars == <<trackerVars, replyCall, call, files, invocations, unlinks,
             replies, deleteCalls, registryVars, serviceHistory>>

Internal == [op |-> "internal", id |-> 0]

\* No revoke notice is singled out.
NoNotice == [id |-> 0, type |-> "none", protocolMessageKey |-> NoKey]

\* What a dispatch record holds before any message or command was handled.
NoDispatch == [op |-> "none", command |-> "none", behaviour |-> <<>>,
               called |-> {}, result |-> "none"]

\* DEFAULT_STATE of ProfileMovieState (fingerprint and timestamp left out).
DEFAULT_STATE == [currentKeyframeIndex |-> 0, messageSinceLastFrame |-> 0,
                  totalMessages |-> 0]

\* `new PluginManager()` and `new ProfileMovieManager(client, options)`.
ComponentsInit ==
  /\ plugins = <<>>
  /\ dispatch = NoDispatch
  /\ ready = FALSE
  /\ movieState = DEFAULT_STATE
  /\ shouldAdvance = FALSE
  /\ updateQueue = 0
  /\ advancing = <<>>

Init ==
  /\ queues = [c \in Chats |-> NoQueue]
  /\ pending = {}
  /\ completed = {}
  /\ transcriptionMessages = {}
  /\ cancelled = {}
  /\ closure = [j \in MessageIds |-> NoMessage]
  /\ previousTask = [j \in MessageIds |-> Resolved]
  /\ taskState = [j \in MessageIds |-> "none"]
  /\ replyCall = [j \in MessageIds |-> NoCall]
  /\ call = [j \in MessageIds |-> NotInvoked]
  /\ files = {}
  /\ invocations = [j \in MessageIds |-> 0]
  /\ unlinks = [j \in MessageIds |-> 0]
  /\ replies = <<>>
  /\ deleteCalls = [j \in MessageIds |-> 0]
  /\ last = [op |-> "init", id |-> 0]
  /\ entryTimestamp = [j \in MessageIds |-> 0]
  /\ now = 0
  /\ deleteOutstanding = [j \in MessageIds |-> 0]
  /\ propagated = 0
  /\ statSize = [j \in MessageIds |-> 0]
  /\ raceStarted = {}
  /\ loserPending = {}
  /\ unhandledRejections = {}
  /\ revokeNotice = NoNotice
  /\ ComponentsInit

\* ------------------------------------------------------- MessageTracker
\* Variant: the pending check of a tracker that never sees a job as pending.
isProcessingNever(messageId) == FALSE

isProcessing(messageId) == messageId \in pending

\* Variant: the completed check of a tracker that forgets completed jobs.
isCompletedNever(messageId) == FALSE

isCompleted(messageId) == messageId \in completed

\* The temp file of a message: audio_<sanitised id>.ogg in the temp directory.
AudioPath(messageId) == <<"audio", messageId, "ogg">>

\* queues.get(chatId) after the queue was created on demand: a chat with no
\* entry gets Promise.resolve() as its tail.
QueueTail(chatId) ==
  IF queues[chatId] = NoQueue THEN Resolved ELSE queues[chatId]

\* Variant: the id is not put into pending when the job is queued.
transcribeLatePending(messageId, message, audioPath) ==
  IF isCompleted(messageId) \/ isProcessing(messageId) THEN
    UNCHANGED trackerVars
  ELSE
    /\ previousTask' = [previousTask EXCEPT ![messageId] = QueueTail(message.from)]
    /\ closure' = [closure EXCEPT ![messageId] = message]
    /\ taskState' = [taskState EXCEPT ![messageId] = "queued"]
    /\ queues' = [queues EXCEPT ![message.from] = messageId]
    /\ UNCHANGED <<pending, completed, transcriptionMessages, cancelled>>

\* MessageTracker.transcribe, the synchronous part: the two duplicate checks,
\* pending.add, and the continuation chained to the tail of the chat's queue.
transcribe(messageId, message, audioPath) ==
  IF isCompleted(messageId) THEN
    UNCHANGED trackerVars
  ELSE IF isProcessing(messageId) THEN
    UNCHANGED trackerVars
  ELSE
    /\ pending' = pending \cup {messageId}
    /\ previousTask' = [previousTask EXCEPT ![messageId] = QueueTail(message.from)]
    /\ closure' = [closure EXCEPT ![messageId] = message]
    /\ taskState' = [taskState EXCEPT ![messageId] = "queued"]
    /\ queues' = [queues EXCEPT ![message.from] = messageId]
    /\ UNCHANGED <<completed, transcriptionMessages, cancelled>>

\* TranscriptionPlugin.transcribeMessage: the audio is written to the temp
\* file of the message and handed to the tracker.  A message id names one
\* message, so a repeated event carries the same chat.
transcribeMessage(message) ==
  /\ closure[message.id] \in {NoMessage, message}
  /\ files' = files \cup {AudioPath(message.id)}
  /\ transcribe(message.id, message, AudioPath(message.id))
  /\ last' = [op |-> "transcribe", id |-> message.id]
  /\ UNCHANGED <<pluginVars, cinemaVars>>
  /\ UNCHANGED <<replyCall, call, invocations, unlinks, replies, deleteCalls>>
  /\ UNCHANGED <<registryVars, serviceHistory>>

\* Variant: continuations that do not wait for the previous task of the chat.
previousTaskIgnored(messageId) == TRUE

\* Variant: one queue for all chats, a continuation waits for every running task.
noTaskRunning(messageId) ==
  \A other \in MessageIds : taskState[other] # "replying"

\* The continuation of a job runs once the task it was chained to resolved.
previousTaskResolved(messageId) ==
  IF previousTask[messageId] = Resolved THEN TRUE
  ELSE taskState[previousTask[messageId]] = "done"

\* error.message.includes('timeout') for the errors the continuation can catch.
includesTimeout(errorMessage) ==
  errorMessage \in {"Transcription timeout"}

\* The statements of the try block (lines 60-80) the continuation executes
\* before control leaves the block.
StatementsReached == {"TranscriptionService.transcribe", "this.pending.set"}

\* What `this.pending.set(messageId, ...)` throws: pending is a Set (line 8),
\* and a Set has no method `set`.
PendingSetError == "this.pending.set is not a function"

\* The failure notice chosen in the catch block.
errorDetail(errorMessage) ==
  IF includesTimeout(errorMessage) THEN "transcriptionTimeout"
  ELSE "transcriptionRetry"

\* Variant: the notice is sent to the newest message of the chat.
ReplyTargetChatTail(messageId) == closure[queues[closure[messageId].from]]

\* The message the continuation replies through: the `message` parameter
\* captured by the closure.
ReplyTarget(messageId) == closure[messageId]

\* The continuation up to its first await.  TranscriptionService.transcribe is
\* called (it runs to its own first await, fs.stat), then this.pending.set
\* throws a TypeError before `await promise` is reached; the catch block starts
\* the failure notice through the captured message and awaits it.  The promise
\* of the service call is left running with nobody awaiting it.
StartTask(messageId) ==
  /\ taskState[messageId] = "queued"
  /\ previousTaskResolved(messageId)
  /\ call' = [call EXCEPT ![messageId] = [stage |-> "stat", outcome |-> "none"]]
  /\ invocations' = [invocations EXCEPT ![messageId] = @ + 1]
  /\ replyCall' = [replyCall EXCEPT ![messageId] =
                     [to |-> ReplyTarget(messageId), text |-> errorDetail(PendingSetError)]]
  /\ taskState' = [taskState EXCEPT ![messageId] = "replying"]
  /\ last' = Internal
  /\ UNCHANGED <<pluginVars, cinemaVars>>
  /\ UNCHANGED <<queues, pending, completed, transcriptionMessages, cancelled,
                 closure, previousTask, files, unlinks, replies, deleteCalls>>
  /\ UNCHANGED <<registryVars, serviceHistory>>

\* Variant: a finally block that leaves the job in pending.
FinallyKeepsPending(messageId) ==
  /\ completed' = completed \cup {messageId}
  /\ pending' = pending
  /\ cancelled' = cancelled \ {messageId}

\* Variant: a finally block that leaves the cancellation flag behind.
FinallyKeepsCancelled(messageId) ==
  /\ completed' = completed \cup {messageId}
  /\ pending' = pending \ {messageId}
  /\ cancelled' = cancelled

\* The finally block of the continuation.
FinallyBlock(messageId) ==
  /\ completed' = completed \cup {messageId}
  /\ pending' = pending \ {messageId}
  /\ cancelled' = cancelled \ {messageId}

\* Variant: the delivered notice is recorded as the reply of the job.
ReplySettlesRecordsNotice(messageId, delivered) ==
  /\ taskState[messageId] = "replying"
  /\ replies' = IF delivered
                THEN Append(replies, [job |-> messageId,
                                      to |-> replyCall[messageId].to,
                                      text |-> replyCall[messageId].text,
                                      flagged |-> messageId \in cancelled])
                ELSE replies
  /\ transcriptionMessages' = IF delivered
                              THEN transcriptionMessages \cup {messageId}
                              ELSE transcriptionMessages
  /\ replyCall' = [replyCall EXCEPT ![messageId] = NoCall]
  /\ FinallyBlock(messageId)
  /\ taskState' = [taskState EXCEPT ![messageId] = "done"]
  /\ last' = Internal
  /\ UNCHANGED <<pluginVars, cinemaVars>>
  /\ UNCHANGED <<queues, closure, previousTask, call,
                 files, invocations, unlinks, deleteCalls>>
  /\ UNCHANGED <<registryVars, serviceHistory>>

\* Variant: the finished task removes the queue entry of a chat it was the
\* tail of.
ReplySettlesDropsIdleQueue(messageId, delivered) ==
  /\ taskState[messageId] = "replying"
  /\ replies' = IF delivered
                THEN Append(replies, [job |-> messageId,
                                      to |-> replyCall[messageId].to,
                                      text |-> replyCall[messageId].text,
                                      flagged |-> messageId \in cancelled])
                ELSE replies
  /\ replyCall' = [replyCall EXCEPT ![messageId] = NoCall]
  /\ FinallyBlock(messageId)
  /\ taskState' = [taskState EXCEPT ![messageId] = "done"]
  /\ queues' = IF queues[closure[messageId].from] = messageId
               THEN [queues EXCEPT ![closure[messageId].from] = NoQueue]
               ELSE queues
  /\ last' = Internal
  /\ UNCHANGED <<pluginVars, cinemaVars>>
  /\ UNCHANGED <<transcriptionMessages, closure, previousTask, call,
                 files, invocations, unlinks, deleteCalls>>
  /\ UNCHANGED <<registryVars, serviceHistory>>

\* message.reply(notice) settles: delivered, or it throws and the error is
\* logged.  Either way the finally block runs and the task resolves.
ReplySettles(messageId, delivered) ==
  /\ taskState[messageId] = "replying"
  /\ replies' = IF delivered
                THEN Append(replies, [job |-> messageId,
                                      to |-> replyCall[messageId].to,
                                      text |-> replyCall[messageId].text,
                                      flagged |-> messageId \in cancelled])
                ELSE replies
  /\ replyCall' = [replyCall EXCEPT ![messageId] = NoCall]
  /\ FinallyBlock(messageId)
  /\ taskState' = [taskState EXCEPT ![messageId] = "done"]
  /\ last' = Internal
  /\ UNCHANGED <<pluginVars, cinemaVars>>
  /\ UNCHANGED <<queues, transcriptionMessages, closure, previousTask, call,
                 files, invocations, unlinks, deleteCalls>>
  /\ UNCHANGED <<registryVars, serviceHistory>>

\* Variant: the id of the notice itself is used, whatever the notice carries.
ResolveIdOwn(notice) == notice.id

\* The canonical id of a revoke notice.
ResolveId(notice) ==
  IF notice.type = "revoked" /\ notice.protocolMessageKey # NoKey
  THEN notice.protocolMessageKey
  ELSE notice.id

\* Variant: a revoke handler that flags the id whatever its state.
handleRevokeAlwaysFlags(notice) ==
  /\ cancelled' = cancelled \cup {ResolveId(notice)}
  /\ last' = [op |-> "handleRevoke", id |-> ResolveId(notice)]
  /\ UNCHANGED <<pluginVars, cinemaVars>>
  /\ UNCHANGED <<queues, pending, completed, transcriptionMessages, closure,
                 previousTask, taskState, replyCall, call, files, invocations,
                 unlinks, replies, deleteCalls>>
  /\ UNCHANGED <<registryVars, serviceHistory>>

\* MessageTracker.handleRevoke up to its first await: a pending job is
\* flagged; for a completed job with an entry, delete(true) is called on the
\* recorded reply and awaited, the entry staying in the map meanwhile.
handleRevoke(notice) ==
  LET messageId == ResolveId(notice) IN
  /\ IF isProcessing(messageId) THEN
       /\ cancelled' = cancelled \cup {messageId}
       /\ UNCHANGED <<deleteCalls, deleteOutstanding>>
     ELSE IF isCompleted(messageId) /\ messageId \in transcriptionMessages THEN
       /\ deleteCalls' = [deleteCalls EXCEPT ![messageId] = @ + 1]
       /\ deleteOutstanding' = [deleteOutstanding EXCEPT ![messageId] = @ + 1]
       /\ UNCHANGED cancelled
     ELSE
       UNCHANGED <<cancelled, deleteCalls, deleteOutstanding>>
  /\ last' = [op |-> "handleRevoke", id |-> messageId]
  /\ UNCHANGED <<pluginVars, cinemaVars>>
  /\ UNCHANGED <<queues, pending, completed, transcriptionMessages, closure,
                 previousTask, taskState, replyCall, call, files, invocations,
                 unlinks, replies>>
  /\ UNCHANGED <<entryTimestamp, now, propagated, serviceHistory>>

\* Variant: the entry is removed only when the delete call succeeded.
DeleteSettlesKeepsOnThrow(messageId, deleted) ==
  /\ deleteOutstanding[messageId] > 0
  /\ deleteOutstanding' = [deleteOutstanding EXCEPT ![messageId] = @ - 1]
  /\ transcriptionMessages' =
       IF deleted THEN transcriptionMessages \ {messageId} ELSE transcriptionMessages
  /\ propagated' = propagated
  /\ last' = [op |-> IF deleted THEN "deleted" ELSE "deleteFailed", id |-> messageId]
  /\ UNCHANGED <<pluginVars, cinemaVars>>
  /\ UNCHANGED <<queues, pending, completed, cancelled, closure, previousTask,
                 taskState, replyCall, call, files, invocations, unlinks,
                 replies, deleteCalls, entryTimestamp, now, serviceHistory>>

\* handleRevoke after its await: entry.transcriptionMessage.delete(true)
\* settles.  On success the entry is removed (line 227); when it throws, the
\* inner catch logs and removes the entry too (line 231).  Nothing is rethrown.
DeleteSettles(messageId, deleted) ==
  /\ deleteOutstanding[messageId] > 0
  /\ deleteOutstanding' = [deleteOutstanding EXCEPT ![messageId] = @ - 1]
  /\ transcriptionMessages' = transcriptionMessages \ {messageId}
  /\ propagated' = propagated
  /\ last' = [op |-> IF deleted THEN "deleted" ELSE "deleteFailed", id |-> messageId]
  /\ UNCHANGED <<pluginVars, cinemaVars>>
  /\ UNCHANGED <<queues, pending, completed, cancelled, closure, previousTask,
                 taskState, replyCall, call, files, invocations, unlinks,
                 replies, deleteCalls, entryTimestamp, now, serviceHistory>>

\* The methods the class MessageTracker of message-tracker.js defines.
MessageTrackerMethods ==
  {"isProcessing", "isCompleted", "transcribe", "getStatus", "cleanup",
   "handleRevoke", "destroy"}

\* Variant: a sweeper that also empties the completed set.
cleanupIntervalClearsCompleted ==
  /\ completed' = {}
  /\ last' = [op |-> "cleanupInterval", id |-> 0]
  /\ UNCHANGED <<pluginVars, cinemaVars>>
  /\ UNCHANGED <<queues, pending, transcriptionMessages, cancelled,
                 closure, previousTask, taskState, replyCall, call, files,
                 invocations, unlinks, replies, deleteCalls, registryVars,
                 serviceHistory>>

\* The callback of the interval set up by the constructor: it calls
\* this.cleanupTranscriptions(), which the class does not define, so the call
\* throws a TypeError and no entry is looked at.
cleanupInterval ==
  /\ "cleanupTranscriptions" \notin MessageTrackerMethods
  /\ last' = [op |-> "cleanupInterval", id |-> 0]
  /\ UNCHANGED <<pluginVars, cinemaVars>>
  /\ UNCHANGED <<queues, pending, completed, transcriptionMessages, cancelled,
                 closure, previousTask, taskState, replyCall, call, files,
                 invocations, unlinks, replies, deleteCalls, registryVars,
                 serviceHistory>>

\* MessageTracker.cleanup(maxAge): the body holds comments only.
cleanup ==
  /\ last' = [op |-> "cleanup", id |-> 0]
  /\ UNCHANGED <<pluginVars, cinemaVars, jobVars>>

\* Time passes.
Tick ==
  /\ now < MaxTime
  /\ now' = now + 1
  /\ last' = Internal
  /\ UNCHANGED <<pluginVars, cinemaVars>>
  /\ UNCHANGED <<queues, pending, completed, transcriptionMessages, cancelled,
                 closure, previousTask, taskState, replyCall, call, files,
                 invocations, unlinks, replies, deleteCalls, entryTimestamp,
                 deleteOutstanding, propagated, serviceHistory>>

\* MessageTracker.getStatus.
getStatus ==
  [pending |-> Cardinality(pending), completed |-> Cardinality(completed)]

\* ------------------------------------------------- TranscriptionService
\* Variant: the size check returns early, past the finally block.
StatSettlesEarlyReturn(messageId, statOk, fileSizeMB) ==
  /\ call[messageId].stage = "stat"
  /\ call' = [call EXCEPT ![messageId] =
       IF ~statOk \/ AudioPath(messageId) \notin files
         THEN [stage |-> "unlink", outcome |-> "statError"]
       ELSE IF fileSizeMB > maxFileSizeMB
         THEN [stage |-> "rejected", outcome |-> "tooLarge"]
       ELSE [stage |-> "race", outcome |-> "none"]]
  /\ statSize' = [statSize EXCEPT ![messageId] =
       IF ~statOk \/ AudioPath(messageId) \notin files THEN 0 ELSE fileSizeMB]
  /\ raceStarted' =
       IF statOk /\ AudioPath(messageId) \in files /\ ~(fileSizeMB > maxFileSizeMB)
       THEN raceStarted \cup {messageId} ELSE raceStarted
  /\ UNCHANGED <<loserPending, unhandledRejections, revokeNotice>>
  /\ last' = Internal
  /\ UNCHANGED <<pluginVars, cinemaVars>>
  /\ UNCHANGED <<trackerVars, replyCall, files, invocations, unlinks, replies,
                 deleteCalls, registryVars>>

\* Variant: no size check, the external request is started for every file.
StatSettlesNoSizeCheck(messageId, statOk, fileSizeMB) ==
  /\ call[messageId].stage = "stat"
  /\ call' = [call EXCEPT ![messageId] =
       IF ~statOk \/ AudioPath(messageId) \notin files
         THEN [stage |-> "unlink", outcome |-> "statError"]
       ELSE [stage |-> "race", outcome |-> "none"]]
  /\ statSize' = [statSize EXCEPT ![messageId] =
       IF ~statOk \/ AudioPath(messageId) \notin files THEN 0 ELSE fileSizeMB]
  /\ raceStarted' =
       IF statOk /\ AudioPath(messageId) \in files
       THEN raceStarted \cup {messageId} ELSE raceStarted
  /\ UNCHANGED <<loserPending, unhandledRejections, revokeNotice>>
  /\ last' = Internal
  /\ UNCHANGED <<pluginVars, cinemaVars>>
  /\ UNCHANGED <<trackerVars, replyCall, files, invocations, unlinks, replies,
                 deleteCalls, registryVars>>

\* fs.stat settles.  It throws, or reports a size: above the limit the call
\* fails before the external request; otherwise the timeout timer and the
\* external request are started and raced.
StatSettles(messageId, statOk, fileSizeMB) ==
  /\ call[messageId].stage = "stat"
  /\ call' = [call EXCEPT ![messageId] =
       IF ~statOk \/ AudioPath(messageId) \notin files
         THEN [stage |-> "unlink", outcome |-> "statError"]
       ELSE IF fileSizeMB > maxFileSizeMB
         THEN [stage |-> "unlink", outcome |-> "tooLarge"]
       ELSE [stage |-> "race", outcome |-> "none"]]
  /\ statSize' = [statSize EXCEPT ![messageId] =
       IF ~statOk \/ AudioPath(messageId) \notin files THEN 0 ELSE fileSizeMB]
  /\ raceStarted' =
       IF statOk /\ AudioPath(messageId) \in files /\ ~(fileSizeMB > maxFileSizeMB)
       THEN raceStarted \cup {messageId} ELSE raceStarted
  /\ UNCHANGED <<loserPending, unhandledRejections, revokeNotice>>
  /\ last' = Internal
  /\ UNCHANGED <<pluginVars, cinemaVars>>
  /\ UNCHANGED <<trackerVars, replyCall, files, invocations, unlinks, replies,
                 deleteCalls, registryVars>>

\* Promise.race settles: the transcription text, the timeout, or an error of
\* the external request.  The catch block rethrows; the finally block starts
\* fs.unlink.
RaceSettles(messageId, winner) ==
  /\ call[messageId].stage = "race"
  /\ call' = [call EXCEPT ![messageId] = [stage |-> "unlink", outcome |-> winner]]
  /\ loserPending' = loserPending \cup {messageId}
  /\ last' = Internal
  /\ UNCHANGED <<pluginVars, cinemaVars>>
  /\ UNCHANGED <<trackerVars, replyCall, files, invocations, unlinks, replies,
                 deleteCalls, registryVars, serviceMeasured,
                 unhandledRejections, revokeNotice>>

\* Variant: a timer that fires after the race was decided replaces the outcome.
LateSettlesOverrides(messageId) ==
  /\ messageId \in loserPending
  /\ loserPending' = loserPending \ {messageId}
  /\ call' = [call EXCEPT ![messageId] = [stage |-> @.stage, outcome |-> "timeout"]]
  /\ last' = [op |-> "lateSettle", id |-> messageId]
  /\ UNCHANGED <<pluginVars, cinemaVars>>
  /\ UNCHANGED <<trackerVars, replyCall, files, invocations, unlinks, replies,
                 deleteCalls, registryVars, serviceMeasured,
                 unhandledRejections, revokeNotice>>

\* The loser of Promise.race settles later: the timer, which is never
\* cleared, fires after the request settled, or the request settles after
\* the timer fired.  The promise returned by Promise.race is settled already
\* and the handlers it attached to the loser do nothing.
LateSettles(messageId) ==
  /\ messageId \in loserPending
  /\ loserPending' = loserPending \ {messageId}
  /\ last' = [op |-> "lateSettle", id |-> messageId]
  /\ UNCHANGED <<pluginVars, cinemaVars>>
  /\ UNCHANGED <<trackerVars, replyCall, call, files, invocations, unlinks,
                 replies, deleteCalls, registryVars, serviceMeasured,
                 unhandledRejections, revokeNotice>>

\* Whether the continuation of the job is suspended at `await promise` (line
\* 66) or has been: it never gets there, line 63 throws first, so nothing
\* ever attaches a handler to the promise of the service call.
promiseAwaited(messageId) == "await promise" \in StatementsReached

\* fs.unlink settles (an unlink error is logged only) and the promise of the
\* service call settles with the outcome of the try block.  A rejection that
\* finds no handler on the promise is an unhandled rejection.
UnlinkSettles(messageId) ==
  /\ call[messageId].stage = "unlink"
  /\ files' = files \ {AudioPath(messageId)}
  /\ unlinks' = [unlinks EXCEPT ![messageId] = @ + 1]
  /\ call' = [call EXCEPT ![messageId] =
       [stage |-> IF call[messageId].outcome = "text" THEN "resolved" ELSE "rejected",
        outcome |-> call[messageId].outcome]]
  /\ unhandledRejections' =
       IF call[messageId].outcome = "text" \/ promiseAwaited(messageId)
       THEN unhandledRejections
       ELSE unhandledRejections \cup {messageId}
  /\ last' = Internal
  /\ UNCHANGED <<pluginVars, cinemaVars>>
  /\ UNCHANGED <<trackerVars, replyCall, invocations, replies, deleteCalls,
                 registryVars, serviceMeasured, loserPending, revokeNotice>>

RaceOutcomes == {"text", "timeout", "external"}

Next ==
  \/ \E message \in Messages : transcribeMessage(message)
  \/ \E notice \in Notices : handleRevoke(notice)
  \/ \E messageId \in MessageIds : StartTask(messageId)
  \/ \E messageId \in MessageIds, delivered \in BOOLEAN : ReplySettles(messageId, delivered)
  \/ \E messageId \in MessageIds, statOk \in BOOLEAN, fileSizeMB \in FileSizesMB :
       StatSettles(messageId, statOk, fileSizeMB)
  \/ \E messageId \in MessageIds, winner \in RaceOutcomes : RaceSettles(messageId, winner)
  \/ \E messageId \in MessageIds : UnlinkSettles(messageId)
  \/ cleanupInterval
  \/ cleanup

Spec == Init /\ [][Next]_vars

\* The event loop runs every ready continuation, and the platform and the
\* file system settle every outstanding call.
Fairness ==
  /\ \A messageId \in MessageIds : WF_vars(StartTask(messageId))
  /\ \A messageId \in MessageIds :
       WF_vars(\E delivered \in BOOLEAN : ReplySettles(messageId, delivered))
  /\ \A messageId \in MessageIds :
       WF_vars(\E statOk \in BOOLEAN, fileSizeMB \in FileSizesMB :
                 StatSettles(messageId, statOk, fileSizeMB))
  /\ \A messageId \in MessageIds :
       WF_vars(\E winner \in RaceOutcomes : RaceSettles(messageId, winner))
  /\ \A messageId \in MessageIds : WF_vars(UnlinkSettles(messageId))

FairSpec == Init /\ [][Next]_vars /\ Fairness

\* ---------------------------------------- the registries, seeded directly
\* A tracker whose registries were filled directly, the way the unit tests
\* fill them (tracker.completed.add(id), tracker.queues.set(...)): some ids
\* are completed and some of those have a transcriptionMessages entry with a
\* timestamp not after the current time.  Everything else is as constructed.
RegistryInit ==
  /\ queues = [c \in Chats |-> NoQueue]
  /\ pending = {}
  /\ completed \in SUBSET MessageIds
  /\ transcriptionMessages \in SUBSET completed
  /\ cancelled = {}
  /\ closure = [j \in MessageIds |-> NoMessage]
  /\ previousTask = [j \in MessageIds |-> Resolved]
  /\ taskState = [j \in MessageIds |-> "none"]
  /\ replyCall = [j \in MessageIds |-> NoCall]
  /\ call = [j \in MessageIds |-> NotInvoked]
  /\ files = {}
  /\ invocations = [j \in MessageIds |-> 0]
  /\ unlinks = [j \in MessageIds |-> 0]
  /\ replies = <<>>
  /\ deleteCalls = [j \in MessageIds |-> 0]
  /\ last = [op |-> "init", id |-> 0]
  /\ now \in 0..MaxTime
  /\ entryTimestamp \in [MessageIds -> 0..MaxTime]
  /\ \A j \in MessageIds :
       IF j \in transcriptionMessages THEN entryTimestamp[j] <= now
       ELSE entryTimestamp[j] = 0
  /\ deleteOutstanding = [j \in MessageIds |-> 0]
  /\ propagated = 0
  /\ statSize = [j \in MessageIds |-> 0]
  /\ raceStarted = {}
  /\ loserPending = {}
  /\ unhandledRejections = {}
  /\ revokeNotice = NoNotice
  /\ ComponentsInit

\* Revoke notices arrive at any time, also while a delete call is outstanding.
RevokeArrives(notice) ==
  /\ deleteCalls[ResolveId(notice)] < MaxDeleteCalls
  /\ handleRevoke(notice)

RegistryNext ==
  \/ \E notice \in Notices : RevokeArrives(notice)
  \/ \E messageId \in MessageIds, deleted \in BOOLEAN : DeleteSettles(messageId, deleted)
  \/ Tick
  \/ cleanupInterval

RegistrySpec == RegistryInit /\ [][RegistryNext]_vars

\* ------------------------------------------------ one revoke notice, followed
\* A tracker whose registries were filled directly (tracker.pending.add(id),
\* tracker.completed.add(id)) and the notice the next revoke events carry.
RevokeInit ==
  /\ queues = [c \in Chats |-> NoQueue]
  /\ pending \in SUBSET MessageIds
  /\ completed \in SUBSET (MessageIds \ pending)
  /\ transcriptionMessages \in SUBSET completed
  /\ cancelled = {}
  /\ closure = [j \in MessageIds |-> NoMessage]
  /\ previousTask = [j \in MessageIds |-> Resolved]
  /\ taskState = [j \in MessageIds |-> "none"]
  /\ replyCall = [j \in MessageIds |-> NoCall]
  /\ call = [j \in MessageIds |-> NotInvoked]
  /\ files = {}
  /\ invocations = [j \in MessageIds |-> 0]
  /\ unlinks = [j \in MessageIds |-> 0]
  /\ replies = <<>>
  /\ deleteCalls = [j \in MessageIds |-> 0]
  /\ last = [op |-> "init", id |-> 0]
  /\ entryTimestamp = [j \in MessageIds |-> 0]
  /\ now = 0
  /\ deleteOutstanding = [j \in MessageIds |-> 0]
  /\ propagated = 0
  /\ statSize = [j \in MessageIds |-> 0]
  /\ raceStarted = {}
  /\ loserPending = {}
  /\ unhandledRejections = {}
  /\ revokeNotice \in Notices
  /\ ComponentsInit

\* The 'message_revoke_everyone' event delivers the notice to handleRevoke.
RevokeEvent ==
  /\ deleteCalls[ResolveId(revokeNotice)] < MaxDeleteCalls
  /\ handleRevoke(revokeNotice)

RevokeNext ==
  \/ RevokeEvent
  \/ \E messageId \in MessageIds, deleted \in BOOLEAN : DeleteSettles(messageId, deleted)

RevokeSpec == RevokeInit /\ [][RevokeNext]_vars

\* ------------------------------------- the tracker with the late race events
\* The tracker and the service as in Spec, and the loser of each race
\* settling at any later time.
RaceNext ==
  \/ \E message \in Messages : transcribeMessage(message)
  \/ \E notice \in Notices : handleRevoke(notice)
  \/ \E messageId \in MessageIds : StartTask(messageId)
  \/ \E messageId \in MessageIds, delivered \in BOOLEAN : ReplySettles(messageId, delivered)
  \/ \E messageId \in MessageIds, statOk \in BOOLEAN, fileSizeMB \in FileSizesMB :
       StatSettles(messageId, statOk, fileSizeMB)
  \/ \E messageId \in MessageIds, winner \in RaceOutcomes : RaceSettles(messageId, winner)
  \/ \E messageId \in MessageIds : UnlinkSettles(messageId)
  \/ \E messageId \in MessageIds : LateSettles(messageId)

RaceSpec == Init /\ [][RaceNext]_vars

\* -------------------------------------------------------- PluginManager
PluginNames == 1..NumPlugins
NoName == 0                      \* plugin.name missing

\* The commands a plugin declares, and the commands a user may send.
Commands == {"test"}
CommandInputs == {"test", "unknown"}

\* The objects handed to register (description and commands array present):
\* a name, the declared commands, and whether onCommand is defined.
Plugins == [name : PluginNames \cup {NoName}, commands : SUBSET Commands,
            hasOnCommand : BOOLEAN]

\* What one plugin does with one message: shouldHandle is absent or returns
\* false; shouldHandle throws; shouldHandle returns true and onMessage
\* resolves; shouldHandle returns true and onMessage throws.
Behaviours == {"declines", "shouldHandleThrows", "resolves", "onMessageThrows"}

\* What onCommand does with one command.
CommandOutcomes == {"resolves", "throws"}

\* Map.prototype.set on a Map kept in insertion order: a known key keeps its
\* position and gets the new value, a new key goes to the end.
MapSet(ps, plugin) ==
  IF \E i \in 1..Len(ps) : ps[i].name = plugin.name
  THEN [i \in 1..Len(ps) |-> IF ps[i].name = plugin.name THEN plugin ELSE ps[i]]
  ELSE Append(ps, plugin)

\* PluginManager.register: a plugin without a name is refused with an error.
register(plugin) ==
  /\ plugins' = IF plugin.name = NoName THEN plugins ELSE MapSet(plugins, plugin)
  /\ last' = [op |-> "register", id |-> plugin.name]
  /\ UNCHANGED <<dispatch, cinemaVars, jobVars>>

\* Variant: the try/catch around the whole loop, the first error ends it.
onMessageCalledUntilThrow(ps, behaviour) ==
  {ps[i].name : i \in {k \in 1..Len(ps) :
       /\ behaviour[k] \in {"resolves", "onMessageThrows"}
       /\ \A h \in 1..(k - 1) :
            behaviour[h] \notin {"shouldHandleThrows", "onMessageThrows"}}}

\* The plugins whose onMessage the loop of handleMessage calls: each plugin
\* is visited inside its own try/catch.
onMessageCalled(ps, behaviour) ==
  {ps[i].name : i \in {k \in 1..Len(ps) :
       behaviour[k] \in {"resolves", "onMessageThrows"}}}

\* PluginManager.handleMessage, from the call to its return.
handleMessage(behaviour) ==
  /\ dispatch' = [op |-> "handleMessage", command |-> "none",
                  behaviour |-> behaviour,
                  called |-> onMessageCalled(plugins, behaviour),
                  result |-> "returned"]
  /\ last' = [op |-> "handleMessage", id |-> 0]
  /\ UNCHANGED <<plugins, cinemaVars, jobVars>>

\* Variant: the loop keeps the last plugin that can execute the command.
FindPluginLast(ps, command, i) ==
  LET matching == {k \in 1..Len(ps) : command \in ps[k].commands /\ ps[k].hasOnCommand}
  IN IF matching = {} THEN 0
     ELSE CHOOSE k \in matching : \A h \in matching : h <= k

\* The loop of handleCommand from plugin i on: the index of the plugin whose
\* onCommand is called, 0 when the loop ends without one.
RECURSIVE FindPlugin(_, _, _)
FindPlugin(ps, command, i) ==
  IF i > Len(ps) THEN 0
  ELSE IF command \in ps[i].commands /\ ps[i].hasOnCommand THEN i
  ELSE FindPlugin(ps, command, i + 1)

\* PluginManager.handleCommand, from the call to its return or throw.
handleCommand(command, outcome) ==
  LET found == FindPlugin(plugins, command, 1) IN
  /\ dispatch' = [op |-> "handleCommand", command |-> command,
                  behaviour |-> IF found = 0 THEN <<>> ELSE <<outcome>>,
                  called |-> IF found = 0 THEN {} ELSE {plugins[found].name},
                  result |-> IF found = 0 THEN "false"
                             ELSE IF outcome = "resolves" THEN "true"
                             ELSE "threw"]
  /\ last' = [op |-> "handleCommand", id |-> 0]
  /\ UNCHANGED <<plugins, cinemaVars, jobVars>>

PluginNext ==
  \/ \E plugin \in Plugins : register(plugin)
  \/ \E behaviour \in [1..Len(plugins) -> Behaviours] : handleMessage(behaviour)
  \/ \E command \in CommandInputs, outcome \in CommandOutcomes :
       handleCommand(command, outcome)

PluginSpec == Init /\ [][PluginNext]_vars

\* ------------------------------------------------------- profile cinema
\* The messages the cinema model follows: three intervals.
MaxMessages == 3 * messageInterval

\* Math.max(1, Number(interval) || 1)
effectiveInterval(interval) == IF interval >= 1 THEN interval ELSE 1

\* The states load() may read back: the file was written by save() of an
\* earlier run with the same interval, or there is none (DEFAULT_STATE).
LoadedStates ==
  {[currentKeyframeIndex |-> index, messageSinceLastFrame |-> since,
    totalMessages |-> since] :
     index \in 0..(NumKeyframes - 1),
     since \in 0..(effectiveInterval(messageInterval) - 1)}

\* ProfileMovieManager.initialize: load, updateFingerprint (a changed movie
\* resets the state), detectKeyframes, save, ready.  Until ready is set every
\* inbound message returns at once, so nothing interleaves with these steps.
initialize(loaded, reset) ==
  /\ ~ready
  /\ movieState' = IF reset THEN DEFAULT_STATE ELSE loaded
  /\ ready' = TRUE
  /\ last' = [op |-> "initialize", id |-> 0]
  /\ UNCHANGED <<shouldAdvance, updateQueue, advancing, pluginVars, jobVars>>

\* Variant: the counter is compared with > and is not reset.
registerMessageLate(state, interval) ==
  [state |-> [state EXCEPT !.totalMessages = @ + 1,
                           !.messageSinceLastFrame = @ + 1],
   returned |-> state.messageSinceLastFrame + 1 > effectiveInterval(interval)]

\* ProfileMovieState.registerMessage: the state after the call and the
\* value returned.
registerMessage(state, interval) ==
  LET since == state.messageSinceLastFrame + 1 IN
  IF since >= effectiveInterval(interval)
  THEN [state |-> [state EXCEPT !.totalMessages = @ + 1,
                                !.messageSinceLastFrame = 0],
        returned |-> TRUE]
  ELSE [state |-> [state EXCEPT !.totalMessages = @ + 1,
                                !.messageSinceLastFrame = since],
        returned |-> FALSE]

\* ProfileMovieState.isComplete
isComplete(totalKeyframes) ==
  IF totalKeyframes = 0 THEN TRUE
  ELSE movieState.currentKeyframeIndex >= totalKeyframes - 1

\* ProfileMovieManager.handleIncomingMessage up to `await save()`: messages
\* of the bot itself and messages before ready are ignored; otherwise the
\* message is counted and, on the interval, an advance is chained on
\* updateQueue (queueFrameAdvance).
handleIncomingMessage(fromMe) ==
  /\ IF ~ready \/ fromMe THEN
       UNCHANGED <<movieState, shouldAdvance, updateQueue>>
     ELSE
       LET registered == registerMessage(movieState, messageInterval) IN
       /\ movieState.totalMessages < MaxMessages
       /\ movieState' = registered.state
       /\ shouldAdvance' = registered.returned
       /\ updateQueue' = IF registered.returned THEN updateQueue + 1 ELSE updateQueue
  /\ last' = [op |-> "handleIncomingMessage", id |-> IF fromMe THEN 1 ELSE 0]
  /\ UNCHANGED <<ready, advancing, pluginVars, jobVars>>

\* Variant: advances are not chained, each one starts at once.
previousAdvanceIgnored == TRUE

\* updateQueue.then(...): an advance starts when the previous link of the
\* chain has settled.
previousAdvanceSettled == advancing = <<>>

\* advanceFrameSafely up to its first await: nothing to do when the movie is
\* complete; otherwise nextIndex is fixed and the frame is extracted.
StartAdvance ==
  /\ updateQueue > Len(advancing)
  /\ previousAdvanceSettled
  /\ IF isComplete(NumKeyframes) THEN
       /\ updateQueue' = updateQueue - 1
       /\ last' = [op |-> "advanceSkipped", id |-> 0]
       /\ UNCHANGED advancing
     ELSE
       LET currentIndex == movieState.currentKeyframeIndex
           nextIndex == IF currentIndex + 1 < NumKeyframes - 1
                        THEN currentIndex + 1 ELSE NumKeyframes - 1
       IN /\ advancing' = Append(advancing, nextIndex)
          /\ last' = [op |-> "advanceStarted", id |-> 0]
          /\ UNCHANGED updateQueue
  /\ UNCHANGED <<ready, movieState, shouldAdvance, pluginVars, jobVars>>

\* The awaits of advanceFrameSafely settle: the frame was extracted and set
\* as profile picture, then advanceTo(nextIndex) and save; or one of them
\* threw, the state is untouched and the chain's catch logs the error.
AdvanceSettles(uploaded) ==
  /\ advancing # <<>>
  /\ movieState' = IF uploaded
                   THEN [movieState EXCEPT !.currentKeyframeIndex = Head(advancing)]
                   ELSE movieState
  /\ advancing' = Tail(advancing)
  /\ updateQueue' = updateQueue - 1
  /\ last' = [op |-> IF uploaded THEN "advanced" ELSE "advanceFailed", id |-> 0]
  /\ UNCHANGED <<ready, shouldAdvance, pluginVars, jobVars>>

CinemaNext ==
  \/ \E loaded \in LoadedStates, reset \in BOOLEAN : initialize(loaded, reset)
  \/ \E fromMe \in BOOLEAN : handleIncomingMessage(fromMe)
  \/ StartAdvance
  \/ \E uploaded \in BOOLEAN : AdvanceSettles(uploaded)

CinemaSpec == Init /\ [][CinemaNext]_vars

TypeOK ==
  /\ pending \subseteq MessageIds
  /\ completed \subseteq MessageIds
  /\ cancelled \subseteq MessageIds
  /\ transcriptionMessages \subseteq MessageIds
  /\ queues \in [Chats -> MessageIds \cup {NoQueue}]
  /\ loserPending \subseteq MessageIds
  /\ unhandledRejections \subseteq MessageIds
  /\ revokeNotice \in Notices \cup {NoNotice}

\* ------------------------------------------------------------ vocabulary
InFlight(messageId) == call[messageId].stage \in {"stat", "race", "unlink"}

Settled(messageId) == call[messageId].stage \in {"resolved", "rejected"}

Tracked(messageId) == taskState[messageId] # "none"

SameChat(a, b) ==
  /\ Tracked(a) /\ Tracked(b)
  /\ closure[a].from = closure[b].from

RECURSIVE ChainedBehind(_, _, _)
ChainedBehind(b, a, n) ==
  IF n = 0 \/ ~Tracked(b) \/ previousTask[b] = Resolved THEN FALSE
  ELSE IF previousTask[b] = a THEN TRUE
  ELSE ChainedBehind(previousTask[b], a, n - 1)

\* a was submitted to the chat of b before b.
SubmittedBefore(a, b) == a # b /\ Tracked(a) /\ ChainedBehind(b, a, NumIds)

RepliesOf(messageId) == {i \in 1..Len(replies) : replies[i].job = messageId}

\* The entry point `messageId` was called in the step that ends in the primed state.
Called(op, messageId) == last'.op = op /\ last'.id = messageId

\* ---------------------------------------------------------------- claims

\* C1: no JobId is at the same time pending (isProcessing) and completed
\* (isCompleted), in every reachable state of the tracker.
C1_PendingCompletedExclusive ==
  \A j \in MessageIds : ~(isProcessing(j) /\ isCompleted(j))

\* A job has completed while another one is still pending and a reply was sent.
C1_Witness ==
  \E j, k \in MessageIds :
    /\ j \in completed /\ k \in pending
    /\ RepliesOf(j) # {}

\* C2: transcribe for a JobId that is pending is a no-op (pending unchanged, no
\* continuation appended to any queue), and the Enrichment Client is invoked at
\* most once per JobId, exactly once for a job whose continuation has started.
C2_PendingResubmitNoOp ==
  /\ [](\A j \in MessageIds :
          /\ invocations[j] <= 1
          /\ taskState[j] \in {"replying", "done"} => invocations[j] = 1)
  /\ [][\A j \in MessageIds :
          (Called("transcribe", j) /\ j \in pending) =>
            UNCHANGED <<pending, queues, previousTask, taskState, closure,
                        invocations, call>>]_vars

\* transcribe was called for a job whose continuation is already running.
C2_Witness ==
  /\ last.op = "transcribe"
  /\ last.id \in pending
  /\ taskState[last.id] = "replying"
  /\ invocations[last.id] = 1

\* C3: transcribe for a JobId that is completed is a no-op: the id is not added
\* to pending, the Enrichment Client is not invoked again and no reply follows.
C3_CompletedResubmitNoOp ==
  /\ [](\A j \in completed :
          /\ j \notin pending
          /\ taskState[j] = "done"
          /\ replyCall[j] = NoCall
          /\ Cardinality(RepliesOf(j)) <= 1)
  /\ [][\A j \in MessageIds :
          (Called("transcribe", j) /\ j \in completed) =>
            UNCHANGED <<pending, completed, queues, previousTask, taskState,
                        invocations, call, replyCall, replies>>]_vars

\* transcribe was called for a job that is completed.
C3_Witness ==
  /\ last.op = "transcribe"
  /\ last.id \in completed
  /\ invocations[last.id] = 1

\* C4: within one chat the Enrichment Client calls are serialized in submission
\* order: the call of a later job starts only after the call of the earlier job
\* has settled and its continuation has finished; no two calls of one chat are
\* in flight together.
C4_EnrichmentSerializedPerChat ==
  /\ \A a, b \in MessageIds :
       (a # b /\ SameChat(a, b)) => ~(InFlight(a) /\ InFlight(b))
  /\ \A a, b \in MessageIds :
       (SubmittedBefore(a, b) /\ call[b].stage # "none") =>
         (Settled(a) /\ taskState[a] = "done")

\* C5: for jobs A, B submitted to the same chat in this order, the reply for B
\* is delivered only after the continuation of A has finished, and after the
\* reply for A when that reply was delivered.
C5_RepliesFifoPerChat ==
  \A a, b \in MessageIds :
    SubmittedBefore(a, b) =>
      \A i \in RepliesOf(b) :
        /\ taskState[a] = "done"
        /\ \A k \in RepliesOf(a) : k < i

\* Both replies of one chat were delivered, A's first, although the call of B
\* (the short one) settled while the call of A (the long one) is still running.
C5_Witness ==
  \E a, b \in MessageIds :
    /\ SubmittedBefore(a, b)
    /\ RepliesOf(a) # {} /\ RepliesOf(b) # {}
    /\ InFlight(a) /\ Settled(b)

C10_RevokeUntrackedNoOp ==
  [][\A j \in MessageIds :
       (Called("handleRevoke", j) /\ j \notin pending /\ j \notin transcriptionMessages)
         => UNCHANGED <<pending, completed, cancelled, transcriptionMessages,
                        queues, previousTask, taskState, replyCall, replies,
                        deleteCalls>>]_vars

\* A revoke was handled for a job that completed with a failure notice, and
\* one for an id that was never submitted.
C10_Witness ==
  /\ last.op = "handleRevoke"
  /\ last.id \notin pending
  /\ \/ last.id \in completed /\ RepliesOf(last.id) # {}
     \/ ~Tracked(last.id) /\ completed # {}

\* C11: a revoke for a completed job with a recorded reply attempts to delete
\* that reply; when the delete call settles, by success or by throwing, the
\* recorded entry is removed and no error leaves the handler.
C11_RevokeDeletesRecordedReply ==
  [][\A j \in MessageIds :
       /\ (Called("handleRevoke", j) /\ j \notin pending /\ j \in completed
             /\ j \in transcriptionMessages)
            => /\ deleteCalls'[j] = deleteCalls[j] + 1
               /\ propagated' = 0
       /\ (Called("deleted", j) \/ Called("deleteFailed", j))
            => /\ j \notin transcriptionMessages'
               /\ propagated' = 0]_vars

\* A delete call made for a recorded reply threw, the entry is gone and
\* nothing was propagated.
C11_Witness ==
  /\ last.op = "deleteFailed"
  /\ deleteCalls[last.id] = 1
  /\ last.id \in completed
  /\ last.id \notin transcriptionMessages
  /\ propagated = 0

C13_SuccessRecordsReply ==
  \A j \in MessageIds :
    ( /\ taskState[j] = "done"
      /\ call[j].stage = "resolved"
      /\ call[j].outcome = "text"
      /\ RepliesOf(j) # {}
      /\ \A i \in RepliesOf(j) : ~replies[i].flagged
      /\ deleteCalls[j] = 0 )
      => j \in transcriptionMessages

C15_ArtifactUnlinkedOnce ==
  \A j \in MessageIds :
    /\ unlinks[j] <= 1
    /\ InFlight(j) => unlinks[j] = 0
    /\ Settled(j) => unlinks[j] = 1
    /\ call[j].stage = "none" => unlinks[j] = 0

\* Two calls have settled on different failure paths (stat error, timeout)
\* and each unlinked once.
C15_Witness ==
  \E j, k \in MessageIds :
    /\ Settled(j) /\ call[j].outcome = "statError" /\ unlinks[j] = 1
    /\ Settled(k) /\ call[k].outcome = "timeout" /\ unlinks[k] = 1

\* C16: a file above the size limit never reaches the external request or the
\* timeout race; the call rejects as too large and the file is still unlinked.
C16_TooLargeRejectedBeforeRequest ==
  \A j \in MessageIds :
    statSize[j] > maxFileSizeMB
      => /\ j \notin raceStarted
         /\ call[j].outcome = "tooLarge"
         /\ call[j].stage \in {"unlink", "rejected"}
         /\ Settled(j) => unlinks[j] = 1

\* A call for a file above the limit has rejected and unlinked the file.
C16_Witness ==
  \E j \in MessageIds :
    /\ statSize[j] > maxFileSizeMB
    /\ call[j].stage = "rejected"
    /\ unlinks[j] = 1
    /\ AudioPath(j) \notin files

\* C17: for a job that was not cancelled, the notice is the timeout notice
\* when the call timed out, the generic retry notice when it failed otherwise,
\* and no failure notice when it succeeded.
C17_NoticeMatchesFailure ==
  \A i \in 1..Len(replies) :
    (~replies[i].flagged /\ Settled(replies[i].job)) =>
      LET outcome == call[replies[i].job].outcome IN
      /\ outcome = "timeout" => replies[i].text = "transcriptionTimeout"
      /\ outcome \in {"statError", "tooLarge", "external"}
           => replies[i].text = "transcriptionRetry"
      /\ outcome = "text"
           => replies[i].text \notin {"transcriptionTimeout", "transcriptionRetry"}

C19_StatusCounts ==
  /\ getStatus.pending = Cardinality(pending)
  /\ getStatus.completed = Cardinality(completed)
  /\ "activeQueues" \in DOMAIN getStatus
  /\ getStatus.activeQueues = Cardinality({c \in Chats : queues[c] # NoQueue})

\* C20: an accepted submit puts the id into pending before it returns; a job
\* waiting behind another job of its chat is pending with its call not
\* started; submitting it again changes nothing; a revoke for it flags it as
\* cancelled and deletes nothing.
C20_QueuedJobIsPending ==
  [][\A j \in MessageIds :
       /\ (Called("transcribe", j) /\ j \notin pending /\ j \notin completed)
            => j \in pending' /\ taskState'[j] = "queued"
       /\ taskState'[j] = "queued"
            => j \in pending' /\ invocations'[j] = 0 /\ call'[j] = NotInvoked
       /\ (Called("transcribe", j) /\ taskState[j] = "queued")
            => UNCHANGED <<queues, pending, previousTask, taskState, invocations>>
       /\ (Called("handleRevoke", j) /\ taskState[j] = "queued")
            => j \in cancelled' /\ UNCHANGED <<pending, taskState, deleteCalls>>]_vars

\* A revoke was handled for a job still waiting behind an unfinished job of
\* its chat: it is pending, flagged, and its call has not started.
C20_Witness ==
  /\ last.op = "handleRevoke"
  /\ last.id \in MessageIds
  /\ taskState[last.id] = "queued"
  /\ previousTask[last.id] # Resolved
  /\ taskState[previousTask[last.id]] # "done"
  /\ last.id \in pending
  /\ last.id \in cancelled
  /\ invocations[last.id] = 0

\* C21: jobs are processed in parallel: the call of a submitted job can start
\* at once, whatever the other jobs are doing, an earlier job of the same
\* chat included.
C21_CallStartsWithoutWaiting ==
  \A j \in MessageIds : taskState[j] = "queued" => ENABLED StartTask(j)

\* C22: temporary files do not leak: a file in the temp directory always
\* belongs to a job whose service call is still to come or still running, the
\* call that unlinks it; a duplicate submit leaves no file behind.
C22_NoArtifactLeak ==
  \A j \in MessageIds :
    AudioPath(j) \in files => (taskState[j] = "queued" \/ InFlight(j))

\* C27: a job is in completed only after its service call has settled and
\* its reply attempt has finished.
C27_CompletedAfterCallAndReply ==
  \A j \in MessageIds :
    j \in completed => (Settled(j) /\ replyCall[j] = NoCall)

\* C28: when the reply delivery of a job whose call succeeded fails, the
\* reply that failed was the result: no failure notice was attempted for the
\* job, and no entry is recorded.
C28_FailedResultDeliveryIsSilent ==
  [][\A j \in MessageIds :
       ( /\ taskState[j] = "replying" /\ taskState'[j] = "done"
         /\ replies' = replies
         /\ call[j].outcome = "text" )
       => /\ replyCall[j].text \notin {"transcriptionTimeout", "transcriptionRetry"}
          /\ j \notin transcriptionMessages']_vars

\* C29: a job has a transcriptionMessages entry only if a result reply was
\* delivered for it: its call succeeded and a delivered reply of the job,
\* sent while it was not flagged, is not a failure notice.
C29_EntryOnlyForDeliveredResult ==
  \A j \in transcriptionMessages :
    /\ call[j].outcome = "text"
    /\ \E i \in RepliesOf(j) :
         /\ ~replies[i].flagged
         /\ replies[i].text \notin {"transcriptionTimeout", "transcriptionRetry"}

\* Jobs have completed after a timed-out call, after a revoke and after a
\* failed delivery, and none of them has an entry.
C29_Witness ==
  /\ \E j \in completed : call[j].outcome \in {"timeout", "tooLarge", "external"}
  /\ \E j \in completed :
       \/ RepliesOf(j) = {}
       \/ \E i \in RepliesOf(j) : replies[i].flagged
  /\ transcriptionMessages \cap completed = {}

\* C30: cancelled is a subset of pending, and no completed job is flagged.
C30_CancelledSubsetOfPending ==
  /\ cancelled \subseteq pending
  /\ cancelled \cap completed = {}

\* One job is pending and flagged while another one, revoked while it was
\* pending, has completed and lost its flag.
C30_Witness ==
  \E j, k \in MessageIds :
    /\ j \in pending /\ j \in cancelled
    /\ k \in completed /\ k \notin cancelled
    /\ \E i \in RepliesOf(k) : replies[i].flagged

\* C23: handleMessage returns without throwing, and every registered plugin
\* whose shouldHandle returned true had its onMessage called, whatever the
\* plugins registered before it did (shouldHandle or onMessage throwing).
C23_PluginErrorsIsolated ==
  [][last'.op = "handleMessage" =>
       /\ dispatch'.result = "returned"
       /\ \A i \in 1..Len(plugins) :
            dispatch'.behaviour[i] \in {"resolves", "onMessageThrows"}
              => plugins[i].name \in dispatch'.called]_vars

\* A message was handled by three plugins: the first threw in shouldHandle,
\* the second in onMessage, and the onMessage of the third was still called.
C23_Witness ==
  /\ last.op = "handleMessage"
  /\ Len(plugins) = 3
  /\ dispatch.behaviour = <<"shouldHandleThrows", "onMessageThrows", "resolves">>
  /\ plugins[3].name \in dispatch.called
  /\ dispatch.result = "returned"

\* C24 (as stated): handleCommand calls onCommand of the first registered
\* plugin that declares the command, and of no other, and returns true; it
\* returns false and calls nothing when no plugin declares the command.
C24_FirstDeclaringPluginExecutes ==
  [][last'.op = "handleCommand" =>
       LET declaring == {i \in 1..Len(plugins) :
                           dispatch'.command \in plugins[i].commands}
       IN IF declaring = {}
          THEN dispatch'.called = {} /\ dispatch'.result = "false"
          ELSE /\ \E i \in declaring :
                    /\ \A k \in declaring : i <= k
                    /\ dispatch'.called = {plugins[i].name}
               /\ dispatch'.result = "true"]_vars

\* C24 (amended): handleCommand calls onCommand of the first registered
\* plugin that declares the command and defines onCommand, and of no other;
\* it returns true when that onCommand resolves and throws when it throws;
\* it returns false and calls nothing when there is no such plugin.
C24_FirstExecutablePluginExecutes ==
  [][last'.op = "handleCommand" =>
       LET executable == {i \in 1..Len(plugins) :
                            /\ dispatch'.command \in plugins[i].commands
                            /\ plugins[i].hasOnCommand}
       IN IF executable = {}
          THEN dispatch'.called = {} /\ dispatch'.result = "false"
          ELSE /\ \E i \in executable :
                    /\ \A k \in executable : i <= k
                    /\ dispatch'.called = {plugins[i].name}
               /\ dispatch'.result =
                    (IF dispatch'.behaviour = <<"resolves">> THEN "true" ELSE "threw")]_vars

\* The first plugin declares the command without an onCommand, the second
\* and the third both declare and define it: only the second was called.
C24_Witness ==
  /\ last.op = "handleCommand"
  /\ Len(plugins) = 3
  /\ dispatch.command \in plugins[1].commands /\ ~plugins[1].hasOnCommand
  /\ dispatch.command \in plugins[2].commands /\ plugins[2].hasOnCommand
  /\ dispatch.command \in plugins[3].commands /\ plugins[3].hasOnCommand
  /\ dispatch.called = {plugins[2].name}
  /\ dispatch.result = "true"

\* C25: a call of registerMessage with interval N returns true exactly on
\* the N-th, 2N-th, 3N-th ... message, resets messageSinceLastFrame to 0 when
\* it returns true, and leaves messageSinceLastFrame in 0..N-1.
C25_EveryNthMessageTriggers ==
  [][movieState'.totalMessages = movieState.totalMessages + 1 =>
       LET N == effectiveInterval(messageInterval) IN
       /\ shouldAdvance' = (movieState'.totalMessages % N = 0)
       /\ shouldAdvance' => movieState'.messageSinceLastFrame = 0
       /\ ~shouldAdvance' => movieState'.messageSinceLastFrame =
                               movieState.messageSinceLastFrame + 1
       /\ movieState'.messageSinceLastFrame \in 0..(N - 1)]_vars

\* The message that completes the second interval was counted: the call
\* returned true and the counter is back at 0.
C25_Witness ==
  /\ last = [op |-> "handleIncomingMessage", id |-> 0]
  /\ movieState.totalMessages = 2 * effectiveInterval(messageInterval)
  /\ shouldAdvance
  /\ movieState.messageSinceLastFrame = 0

\* C26 (amended): frame advances run one at a time; an advance that set the
\* profile picture moves currentKeyframeIndex forward by exactly one key
\* frame, nothing else moves it (a failed advance leaves it), and it never
\* passes the last key frame, however many advances were queued while an
\* earlier one was running.
C26_AdvancesSerializedOneFrame ==
  [][/\ Len(advancing') <= 1
     /\ movieState'.currentKeyframeIndex <= NumKeyframes - 1
     /\ last'.op = "advanced"
          => movieState'.currentKeyframeIndex = movieState.currentKeyframeIndex + 1
     /\ (ready /\ movieState'.currentKeyframeIndex # movieState.currentKeyframeIndex)
          => last'.op = "advanced"]_vars

\* C26 (as stated): advances run one at a time, the index never passes the
\* last key frame, and every advance that was started, whether its upload
\* succeeds or throws, moves currentKeyframeIndex forward by exactly one.
C26_EveryAdvanceMovesOneFrame ==
  [][/\ Len(advancing') <= 1
     /\ movieState'.currentKeyframeIndex <= NumKeyframes - 1
     /\ last'.op \in {"advanced", "advanceFailed"}
          => movieState'.currentKeyframeIndex = movieState.currentKeyframeIndex + 1]_vars

\* Two advances were queued while the first was running; the first and the
\* second have each moved the index by one, the third is still queued.
C26_Witness ==
  /\ last.op = "advanced"
  /\ movieState.currentKeyframeIndex = 2
  /\ movieState.totalMessages = MaxMessages
  /\ updateQueue = 1
  /\ advancing = <<>>

\* C31: the completed set only grows: a JobId that is in completed stays in
\* it under every operation (submit, revoke, sweeper, cleanup, the
\* continuations), and it is never put into pending again.
C31_CompletedOnlyGrows ==
  [][/\ completed \subseteq completed'
     /\ \A j \in completed : j \notin pending']_vars

\* cleanup ran while every job was completed.
C31_Witness ==
  /\ last.op = "cleanup"
  /\ completed = MessageIds

\* C32: errors are contained per job: a failure of the enrichment call of a
\* job is caught by the task of that job, so no rejection leaves the tracker
\* unhandled and the jobs submitted after it run and complete.
C32_ErrorsContainedPerJob ==
  \A j \in MessageIds :
    (Settled(j) /\ call[j].outcome # "text") => j \notin unhandledRejections

C34_RevokeResolvesCanonicalId ==
  [][last'.op = "handleRevoke" =>
       LET canonical ==
             IF revokeNotice.type = "revoked" /\ revokeNotice.protocolMessageKey # NoKey
             THEN revokeNotice.protocolMessageKey
             ELSE revokeNotice.id
       IN
       /\ last'.id = canonical
       /\ cancelled' = IF canonical \in pending THEN cancelled \cup {canonical}
                       ELSE cancelled
       /\ \A j \in MessageIds :
            deleteCalls'[j] =
              IF /\ j = canonical
                 /\ j \notin pending
                 /\ j \in completed
                 /\ j \in transcriptionMessages
              THEN deleteCalls[j] + 1
              ELSE deleteCalls[j]
       /\ UNCHANGED <<pending, completed, transcriptionMessages, revokeNotice>>]_vars

\* A notice of type 'revoked' whose own id is pending carried the key of
\* another pending job: the job of the key was flagged, the other was not.
C34_Witness ==
  /\ last.op = "handleRevoke"
  /\ revokeNotice.type = "revoked"
  /\ revokeNotice.protocolMessageKey \notin {NoKey, revokeNotice.id}
  /\ revokeNotice.protocolMessageKey \in cancelled
  /\ revokeNotice.id \in pending \ cancelled

\* C35: a job that was not cancelled and whose enrichment call succeeded
\* delivers exactly one reply, the reply carries the text the call returned,
\* and no failure notice is sent for it.
C35_SuccessDeliversResult ==
  \A j \in MessageIds :
    ( /\ taskState[j] = "done"
      /\ call[j].stage = "resolved"
      /\ call[j].outcome = "text"
      /\ RepliesOf(j) # {}
      /\ \A i \in RepliesOf(j) : ~replies[i].flagged )
    => /\ Cardinality(RepliesOf(j)) = 1
       /\ \A i \in RepliesOf(j) : replies[i].text = "transcriptionResult"

\* C36: for every JobId at most one reply, result or failure notice, is
\* delivered, whatever the submits, revokes and completions.
C36_AtMostOneReplyPerJob ==
  \A j \in MessageIds : Cardinality(RepliesOf(j)) <= 1

\* A revoke was handled when every job had its one reply delivered.
C36_Witness ==
  /\ last.op = "handleRevoke"
  /\ \A j \in MessageIds : Cardinality(RepliesOf(j)) = 1

\* C37: a revoke handled before the submit of its JobId leaves no trace: no
\* flag is ever held for an id that was not submitted, and the revoke changes
\* nothing the later submit, call or reply depends on.
C37_EarlyRevokeLeavesNoTrace ==
  /\ [](\A j \in cancelled : Tracked(j))
  /\ [][\A j \in MessageIds :
          (Called("handleRevoke", j) /\ ~Tracked(j)) => UNCHANGED jobVars]_vars

\* A revoke was handled for an id not yet submitted while another job was
\* pending.
C37_Witness ==
  /\ last.op = "handleRevoke"
  /\ ~Tracked(last.id)
  /\ pending # {}
  /\ cancelled = {}

\* C38: the queues map never shrinks: it holds an entry exactly for the chats
\* that had an accepted submit, and an entry stays when its chat is idle.
C38_QueuesNeverShrink ==
  /\ [](\A c \in Chats :
          queues[c] # NoQueue <=>
            \E j \in MessageIds : Tracked(j) /\ closure[j].from = c)
  /\ [][\A c \in Chats : queues[c] # NoQueue => queues'[c] # NoQueue]_vars

\* Every submitted job is done, and the chats still have their entries.
C38_Witness ==
  /\ pending = {}
  /\ \A j \in MessageIds : taskState[j] = "done"
  /\ \A c \in Chats : queues[c] # NoQueue

\* C39: the race has one winner: the loser settling later (the timer that is
\* never cleared, or the external call after the timeout) changes neither the
\* outcome of the call nor any tracker state and sends nothing; an outcome
\* once decided is never replaced.
C39_RaceHasOneWinner ==
  [][/\ \A j \in MessageIds :
          Called("lateSettle", j) =>
            UNCHANGED <<trackerVars, replyCall, call, files, invocations,
                        unlinks, replies, deleteCalls, registryVars,
                        serviceMeasured, unhandledRejections>>
     /\ \A j \in MessageIds :
          call[j].outcome # "none" => call'[j].outcome = call[j].outcome]_vars

\* The external call settled late after a timeout, and for another job the
\* timer fired after its call had returned the text.
C39_Witness ==
  /\ last.op = "lateSettle"
  /\ call[last.id].outcome = "timeout"
  /\ \E k \in MessageIds \ {last.id} :
       /\ call[k].outcome = "text"
       /\ Settled(k)
       /\ k \notin loserPending

====
